---- MODULE Spec2Model ----
(***************************************************************************)
(* Order-status checker bot: the Slack message handler, the Shopify order  *)
(* fetch, the order analysis rules, the field chunking of the reply and    *)
(* the elapsed-weeks arithmetic, as state machines and operators.          *)
(*                                                                         *)
(* Strings the code trims, upper-cases, splits or matches with a regular   *)
(* expression are sequences of one-character strings.  Instants are        *)
(* milliseconds counted from a reference instant (what Date.getTime()      *)
(* returns, shifted so that the numbers fit the checker's integers).       *)
(***************************************************************************)
EXTENDS Integers, Sequences, FiniteSets, TLC

VARIABLES
  now,          \* the instant new Date() returns while the step runs
  lockChannel,  \* LOCK_CHANNEL
  event,        \* the message event handed to the handler
  pc,           \* the handler's position
  matches,      \* the identifiers matched in event.text
  idx,          \* index in matches of the identifier being processed
  fetches,      \* order names for which a backend fetch was issued, in order
  pending,      \* the chat.postMessage call being awaited
  attempts,     \* every chat.postMessage call issued, in order
  posts,        \* the calls that succeeded (messages in the thread), in order
  outcomes,     \* per processed identifier, what its fetch gave
  caught,       \* the entries into the catch block: where the exception rose
  escaped,      \* an exception left the handler
  aOrder,       \* analyzeOrder: the order analysed
  aResult,      \* analyzeOrder: what it returned
  aDone,
  fDetails,     \* field chunking: the detail list
  fPos,         \* field chunking: entries consumed by the loop
  fCurrent,     \* field chunking: current
  fChunks,      \* field chunking: fieldChunks
  fBlocks,      \* field chunking: blocks
  fDone,
  wOrder,       \* weeksSince: the order whose fulfillments are dated
  wResult,      \* weeksSince(mostRecentFulfillmentAt(order))
  wDone

vars == <<now, lockChannel, event, pc, matches, idx, fetches, pending, attempts,
          posts, outcomes, caught, escaped, aOrder, aResult, aDone, fDetails, fPos,
          fCurrent, fChunks, fBlocks, fDone, wOrder, wResult, wDone>>

handlerVars == <<lockChannel, event, pc, matches, idx, fetches, pending,
                 attempts, posts, outcomes, caught, escaped>>
analyzeVars == <<aOrder, aResult, aDone>>
formatVars == <<fDetails, fPos, fCurrent, fChunks, fBlocks, fDone>>
weeksVars == <<wOrder, wResult, wDone>>

(***************************************************************************)
(* Characters and strings                                                  *)
(***************************************************************************)
LowerCase == <<"a","b","c","d","e","f","g","h","i","j","k","l","m",
               "n","o","p","q","r","s","t","u","v","w","x","y","z">>
UpperCase == <<"A","B","C","D","E","F","G","H","I","J","K","L","M",
               "N","O","P","Q","R","S","T","U","V","W","X","Y","Z">>
Digits == {"0","1","2","3","4","5","6","7","8","9"}
WhiteSpace == {" ", "\t", "\n"}

Range(s) == {s[i] : i \in 1..Len(s)}

IsDigit(c) == c \in Digits

LowerSet == Range(LowerCase)
WordChars == LowerSet \cup Range(UpperCase) \cup Digits \cup {"_"}
UpperOf ==
  [c \in LowerSet |-> UpperCase[CHOOSE i \in 1..Len(LowerCase) : LowerCase[i] = c]]

\* \w of the regular expression: [A-Za-z0-9_]
IsWordChar(c) == c \in WordChars

UpperChar(c) == IF c \in LowerSet THEN UpperOf[c] ELSE c

\* String.prototype.toUpperCase
ToUpperCase(s) == [i \in 1..Len(s) |-> UpperChar(s[i])]

RECURSIVE TrimStart(_)
TrimStart(s) ==
  IF s = <<>> THEN <<>>
  ELSE IF Head(s) \in WhiteSpace THEN TrimStart(Tail(s))
  ELSE s

RECURSIVE TrimEnd(_)
TrimEnd(s) ==
  IF s = <<>> THEN <<>>
  ELSE IF s[Len(s)] \in WhiteSpace THEN TrimEnd(SubSeq(s, 1, Len(s) - 1))
  ELSE s

\* String.prototype.trim
Trim(s) == TrimEnd(TrimStart(s))

(***************************************************************************)
(* The strings of the program                                              *)
(***************************************************************************)
S_ARRANGED == <<"A","R","R","A","N","G","E","D">>
S_NEED_TO_ARRANGE == <<"N","E","E","D"," ","T","O"," ","A","R","R","A","N","G","E">>
S_INCOMING == <<"I","N","C","O","M","I","N","G">>
S_RESERVED == <<"R","E","S","E","R","V","E","D"," ","I","N","C","O","M","I","N","G"," ","I","N","V","E","N","T","O","R","Y">>
S_READY_TO_CONTACT == <<"R","E","A","D","Y"," ","T","O"," ","C","O","N","T","A","C","T">>
S_CONTACT_LATER == <<"C","O","N","T","A","C","T"," ","L","A","T","E","R">>
S_NEEDS_FOLLOW_UP == <<"N","E","E","D","S"," ","F","O","L","L","O","W","-","U","P">>
S_OWES_RETURN == <<"O","W","E","S"," ","R","E","T","U","R","N">>
S_FULFILLED == <<"F","U","L","F","I","L","L","E","D">>
S_DASH == <<"-">>

(***************************************************************************)
(* Helpers                                                                 *)
(***************************************************************************)
\* A metafield of the GraphQL answer: null, or an object with a value.
NullMf == [present |-> FALSE, value |-> <<>>]
Mf(v) == [present |-> TRUE, value |-> v]

\* val without the trim
ValNoTrim(mf) ==
  LET v == IF mf.present THEN mf.value ELSE <<>>
  IN  IF v # <<>> /\ Len(v) > 0 THEN v ELSE <<>>

\* val(mf, fallback = ''): the trimmed value, or '' when there is none
Val(mf) ==
  LET v == IF mf.present THEN Trim(mf.value) ELSE <<>>
  IN  IF v # <<>> /\ Len(v) > 0 THEN v ELSE <<>>

IsYes(s, yes) == ToUpperCase(s) = yes
IsEq(s, target) == ToUpperCase(s) = ToUpperCase(target)

\* The createdAt of a fulfillment that carries none (null, undefined or '').
NoDate == -1

\* 1000 * 60 * 60 * 24 * 7
WeekMs == 604800000

\* rounding that drops the fraction (Math.floor in place of Math.round)
MathFloor(num, den) == num \div den

\* Math.round(num / den) for an even den > 0: the nearest integer, a tie going
\* to the larger one (floor(x + 1/2)).
MathRound(num, den) == (num + den \div 2) \div den

\* weeksSince(dateIso) evaluated at nowMs.  The number Math.round(weeks * 10) / 10
\* is kept as its count of tenths: tenths = 20 is the number 2.0.
\* weeks * 10 = ms / (WeekMs / 10).
WeeksSince(dateIso, nowMs) ==
  IF dateIso = NoDate THEN [isNumber |-> FALSE, tenths |-> 0]
  ELSE LET ms == nowMs - dateIso
       IN  [isNumber |-> TRUE, tenths |-> MathRound(ms, WeekMs \div 10)]

\* Array.prototype.sort((a, b) => new Date(b) - new Date(a)): stable, descending
RECURSIVE InsertDesc(_, _)
InsertDesc(sorted, d) ==
  IF sorted = <<>> THEN <<d>>
  ELSE IF Head(sorted) - d >= 0 THEN <<Head(sorted)>> \o InsertDesc(Tail(sorted), d)
  ELSE <<d>> \o sorted

RECURSIVE SortDesc(_)
SortDesc(s) ==
  IF s = <<>> THEN <<>>
  ELSE InsertDesc(SortDesc(SubSeq(s, 1, Len(s) - 1)), s[Len(s)])

\* mostRecentFulfillmentAt(order)
MostRecentFulfillmentAt(order) ==
  LET list == order.fulfillments
      mapped == [i \in 1..Len(list) |-> list[i].createdAt]
      dates == SortDesc(SelectSeq(mapped, LAMBDA d : d # NoDate))
  IN  IF Len(list) = 0 THEN NoDate
      ELSE IF dates = <<>> THEN NoDate
      ELSE dates[1]

\* gid.split('/').pop(): what follows the last '/'
RECURSIVE LastSegment(_)
LastSegment(s) ==
  IF s = <<>> THEN <<>>
  ELSE IF s[Len(s)] = "/" THEN <<>>
  ELSE LastSegment(SubSeq(s, 1, Len(s) - 1)) \o <<s[Len(s)]>>

\* adminOrderUrlFromGid(gid); SHOPIFY_DOMAIN is kept symbolic
AdminOrderUrlFromGid(gid) ==
  LET numericId == LastSegment(gid)
  IN  IF numericId # <<>>
        THEN [base |-> "https://SHOPIFY_DOMAIN/admin/orders/", id |-> numericId]
        ELSE [base |-> "https://SHOPIFY_DOMAIN/admin", id |-> <<>>]

(***************************************************************************)
(* analyzeOrder                                                            *)
(***************************************************************************)
\* One line of the blurb: which template, and what it interpolates.
Line(kind) == [kind |-> kind, num |-> 0, text |-> <<>>]

\* The local state of analyzeOrder: blurb, details and detailsAdded, with two
\* history fields: keys[i] is the key under which details[i] was pushed, and
\* requests lists every addDetail call in call order.
EmptyAnalysis ==
  [blurb |-> <<>>, details |-> <<>>, detailsAdded |-> {}, keys |-> <<>>,
   requests |-> <<>>]

\* addDetail without the detailsAdded.has(key) test
AddDetailNoDedup(st, key, label, value) ==
  LET st1 == [st EXCEPT !.requests =
                 Append(@, [key |-> key, label |-> label, value |-> value])]
  IN  IF value = <<>> THEN st1
      ELSE [st1 EXCEPT !.details = Append(@, [label |-> label, value |-> value]),
                       !.detailsAdded = @ \cup {key},
                       !.keys = Append(@, key)]

AddDetail(st, key, label, value) ==
  LET st1 == [st EXCEPT !.requests =
                 Append(@, [key |-> key, label |-> label, value |-> value])]
  IN  IF value = <<>> THEN st1
      ELSE IF key \in st.detailsAdded THEN st1
      ELSE [st1 EXCEPT !.details = Append(@, [label |-> label, value |-> value]),
                       !.detailsAdded = @ \cup {key},
                       !.keys = Append(@, key)]

Push(st, line) == [st EXCEPT !.blurb = Append(@, line)]

\* const mf = { ... }
Normalize(order) ==
  [weeks           |-> Val(order.weeksSinceOrder),
   arrangeStatus   |-> ToUpperCase(Val(order.arrangeStatus)),
   arrangedWith    |-> Val(order.arrangedWith),
   incoming        |-> ToUpperCase(Val(order.incoming)),
   reserveIncoming |-> ToUpperCase(Val(order.reserveIncoming)),
   readyToContact  |-> ToUpperCase(Val(order.readyToContact)),
   needsFollowUp   |-> ToUpperCase(Val(order.needsFollowUp)),
   followUpNotes   |-> Val(order.followUpNotes),
   owesReturn      |-> ToUpperCase(Val(order.owesReturn)),
   returnNotes     |-> Val(order.returnNotes),
   invoice         |-> Val(order.invoicedWith)]

IsFulfilled(order) ==
  LET dispFulfill == IF order.displayFulfillmentStatus # <<>>
                       THEN order.displayFulfillmentStatus ELSE S_DASH
  IN  ToUpperCase(dispFulfill) = S_FULFILLED

\* the fulfillment rule saying nothing of an unfulfilled order of unknown age
RuleFulfillmentSilent(st, mf, isFulfilled, w) ==
  IF isFulfilled
    THEN AddDetail(
           Push(st, IF w.isNumber
                      THEN [Line("FULFILLED_WEEKS_AGO") EXCEPT !.num = w.tenths]
                      ELSE Line("FULFILLED_DATE_UNAVAILABLE")),
           "invoice", "Invoiced With", mf.invoice)
    ELSE IF mf.weeks # <<>>
      THEN Push(st, [Line("NOT_FULFILLED_WEEKS_OPEN") EXCEPT !.text = mf.weeks])
      ELSE st

\* Fulfilled vs not
RuleFulfillment(st, mf, isFulfilled, w) ==
  IF isFulfilled
    THEN AddDetail(
           Push(st, IF w.isNumber
                      THEN [Line("FULFILLED_WEEKS_AGO") EXCEPT !.num = w.tenths]
                      ELSE Line("FULFILLED_DATE_UNAVAILABLE")),
           "invoice", "Invoiced With", mf.invoice)
    ELSE Push(st, IF mf.weeks # <<>>
                    THEN [Line("NOT_FULFILLED_WEEKS_OPEN") EXCEPT !.text = mf.weeks]
                    ELSE Line("NOT_FULFILLED_AGE_UNKNOWN"))

\* NEED TO ARRANGE
RuleNeedToArrange(st, mf, isFulfilled) ==
  IF IsEq(mf.arrangeStatus, S_NEED_TO_ARRANGE)
    THEN LET s1 == Push(st, Line("NEED_TO_ARRANGE"))
             s2 == AddDetail(s1, "followUpNotes", "Follow-Up Notes", mf.followUpNotes)
         IN  IF ~isFulfilled
               THEN AddDetail(s2, "weeks", "Weeks Since Order", mf.weeks)
               ELSE s2
    ELSE st

\* the ARRANGED rule without its "not yet incoming" test
RuleArrangedAlways(st, mf, isFulfilled) ==
  IF IsEq(mf.arrangeStatus, S_ARRANGED)
    THEN LET s1 == Push(st, Line("ARRANGED_NOT_INCOMING"))
             s2 == AddDetail(s1, "arrangedWith", "Arranged With", mf.arrangedWith)
         IN  IF ~isFulfilled
               THEN AddDetail(s2, "weeks", "Weeks Since Order", mf.weeks)
               ELSE s2
    ELSE st

\* ARRANGED (but not yet incoming)
RuleArranged(st, mf, isFulfilled) ==
  IF IsEq(mf.arrangeStatus, S_ARRANGED) /\ ~IsYes(mf.incoming, S_INCOMING)
    THEN LET s1 == Push(st, Line("ARRANGED_NOT_INCOMING"))
             s2 == AddDetail(s1, "arrangedWith", "Arranged With", mf.arrangedWith)
         IN  IF ~isFulfilled
               THEN AddDetail(s2, "weeks", "Weeks Since Order", mf.weeks)
               ELSE s2
    ELSE st

\* INCOMING
RuleIncoming(st, mf, isFulfilled) ==
  IF IsYes(mf.incoming, S_INCOMING)
    THEN LET alsoArranged == IsEq(mf.arrangeStatus, S_ARRANGED)
             s1 == IF alsoArranged
                     THEN AddDetail(Push(st, Line("PARTIALLY_INCOMING")),
                                    "followUpNotes", "Follow-Up Notes",
                                    mf.followUpNotes)
                     ELSE Push(st, Line("INCOMING"))
             s2 == AddDetail(s1, "invoice", "Invoiced With", mf.invoice)
         IN  IF ~isFulfilled
               THEN AddDetail(s2, "weeks", "Weeks Since Order", mf.weeks)
               ELSE s2
    ELSE st

\* READY TO CONTACT / CONTACT LATER
RuleReadyToContact(st, mf) ==
  IF IsEq(mf.readyToContact, S_READY_TO_CONTACT)
    THEN AddDetail(Push(st, Line("READY_TO_CONTACT")),
                   "invoice", "Invoiced With", mf.invoice)
  ELSE IF IsEq(mf.readyToContact, S_CONTACT_LATER)
    THEN AddDetail(
           AddDetail(Push(st, Line("CONTACT_LATER")),
                     "weeks", "Weeks Since Order", mf.weeks),
           "invoice", "Invoiced With", mf.invoice)
  ELSE st

\* NEEDS FOLLOW-UP
RuleNeedsFollowUp(st, mf) ==
  IF IsEq(mf.needsFollowUp, S_NEEDS_FOLLOW_UP)
    THEN AddDetail(Push(st, Line("NEEDS_FOLLOW_UP")),
                   "followUpNotes", "Follow-Up Notes", mf.followUpNotes)
    ELSE st

\* RESERVED INCOMING INVENTORY
RuleReserved(st, mf) ==
  IF IsEq(mf.reserveIncoming, S_RESERVED)
    THEN AddDetail(Push(st, Line("RESERVED_INCOMING")),
                   "arrangedWith", "Arranged/Reserved With", mf.arrangedWith)
    ELSE st

\* OWES RETURN
RuleOwesReturn(st, mf) ==
  IF IsEq(mf.owesReturn, S_OWES_RETURN)
    THEN AddDetail(Push(st, Line("OWES_RETURN")),
                   "returnNotes", "Return Notes", mf.returnNotes)
    ELSE st

\* if (blurb.length === 0) blurb.push(`No exceptions detected.`)
RuleNoExceptions(st) ==
  IF Len(st.blurb) = 0 THEN Push(st, Line("NO_EXCEPTIONS")) ELSE st

\* analyzeOrder(order), evaluated at nowMs
AnalyzeOrder(order, nowMs) ==
  LET name == IF order.name # <<>> THEN order.name ELSE S_DASH
      customer == IF order.customer.present /\ order.customer.value # <<>>
                    THEN order.customer.value ELSE S_DASH
      mf == Normalize(order)
      fulfilledAt == MostRecentFulfillmentAt(order)
      isFulfilled == IsFulfilled(order)
      s1 == RuleFulfillment(EmptyAnalysis, mf, isFulfilled,
                            WeeksSince(fulfilledAt, nowMs))
      s2 == RuleNeedToArrange(s1, mf, isFulfilled)
      s3 == RuleArranged(s2, mf, isFulfilled)
      s4 == RuleIncoming(s3, mf, isFulfilled)
      s5 == RuleReadyToContact(s4, mf)
      s6 == RuleNeedsFollowUp(s5, mf)
      s7 == RuleReserved(s6, mf)
      s8 == RuleOwesReturn(s7, mf)
      s9 == RuleNoExceptions(s8)
  IN  [headerText |-> name \o <<" ", "-", " ">> \o customer,
       blurbLines |-> s9.blurb,
       details    |-> s9.details,
       footer     |-> <<AdminOrderUrlFromGid(order.id)>>,
       keys       |-> s9.keys,
       requests   |-> s9.requests]

(***************************************************************************)
(* The reply's blocks                                                      *)
(***************************************************************************)
\* if (current.length === 10)
MaxFieldsPerSection == 10

Block(type) == [type |-> type, text |-> <<>>, fields |-> <<>>]

\* { type: "mrkdwn", text: `*${d.label}*\n${d.value || '-'}` }
FieldOf(d) ==
  [type |-> "mrkdwn", label |-> d.label,
   value |-> IF d.value # <<>> THEN d.value ELSE S_DASH]

NoChunks == [current |-> <<>>, fieldChunks |-> <<>>]

\* the body of: for (const d of details) { ... }
ChunkStep(acc, d) ==
  LET current == Append(acc.current, FieldOf(d))
  IN  IF Len(current) = MaxFieldsPerSection
        THEN [current |-> <<>>, fieldChunks |-> Append(acc.fieldChunks, current)]
        ELSE [current |-> current, fieldChunks |-> acc.fieldChunks]

\* the loop's end without the push of what is left in current
ChunkFlushNothing(acc) == acc.fieldChunks

\* if (current.length) fieldChunks.push(current)
ChunkFlush(acc) ==
  IF Len(acc.current) > 0 THEN Append(acc.fieldChunks, acc.current)
  ELSE acc.fieldChunks

RECURSIVE ChunkLoop(_, _)
ChunkLoop(acc, details) ==
  IF details = <<>> THEN acc
  ELSE ChunkLoop(ChunkStep(acc, Head(details)), Tail(details))

\* const blocks = []; blocks.push(...) ...: the blocks of the summary, given
\* the fieldChunks the loop built
AssembleBlocks(result, fieldChunks) ==
  <<[Block("header") EXCEPT !.text = result.headerText],
    Block("divider"),
    [Block("section") EXCEPT !.text = result.blurbLines]>>
  \o (IF Len(result.details) > 0
        THEN <<Block("divider")>>
             \o [i \in 1..Len(fieldChunks) |->
                   [Block("section") EXCEPT !.fields = fieldChunks[i]]]
        ELSE <<>>)
  \o <<[Block("context") EXCEPT !.text = result.footer]>>

BuildBlocks(result) ==
  AssembleBlocks(result, ChunkFlush(ChunkLoop(NoChunks, result.details)))

(***************************************************************************)
(* Orders the backend can answer with                                      *)
(***************************************************************************)
S_NOT_YET == <<"N","O","T"," ","Y","E","T">>
S_UNFULFILLED == <<"U","N","F","U","L","F","I","L","L","E","D">>
In_arranged_padded == <<" ","a","r","r","a","n","g","e","d"," ">>
In_Incoming_mixed == <<"I","n","c","o","m","i","n","g">>
In_owes_lower == <<"o","w","e","s"," ","r","e","t","u","r","n","\n">>
In_blank == <<" ","\t">>
In_weeks == <<"1","2",".","3">>
In_supplier == <<"A","c","m","e">>
In_notes == <<"c","a","l","l"," ","b","a","c","k">>
In_return == <<"s","i","z","e"," ","s","w","a","p">>
In_invoice == <<"I","N","V","-","7">>
In_gid == <<"g","i","d",":","/","/","s","h","o","p","i","f","y","/","O","r","d","e","r","/","7","7">>
In_customer == <<"A","n","a">>
Id_1001 == <<"C","#","1","0","0","1">>
Id_20022 == <<"C","#","2","0","0","2","2">>

\* The instant of evaluation, and 14 days in milliseconds.
NowMs == 1500000000
FourteenDaysMs == 2 * WeekMs

Fulfillment(at) == [createdAt |-> at, status |-> "SUCCESS"]

\* An order with no custom field set, not fulfilled, no fulfillment.
BareOrder ==
  [id |-> In_gid, name |-> Id_1001, customer |-> Mf(In_customer),
   displayFulfillmentStatus |-> S_UNFULFILLED, fulfillments |-> <<>>,
   weeksSinceOrder |-> NullMf, arrangeStatus |-> NullMf, arrangedWith |-> NullMf,
   incoming |-> NullMf, reserveIncoming |-> NullMf, readyToContact |-> NullMf,
   needsFollowUp |-> NullMf, followUpNotes |-> NullMf, owesReturn |-> NullMf,
   returnNotes |-> NullMf, invoicedWith |-> NullMf]

AnalyzeInputs ==
  {[BareOrder EXCEPT
      !.displayFulfillmentStatus = st, !.fulfillments = ff,
      !.weeksSinceOrder = wk, !.arrangeStatus = as, !.arrangedWith = aw,
      !.incoming = inc, !.reserveIncoming = ri, !.readyToContact = rc,
      !.needsFollowUp = nf, !.followUpNotes = fn, !.owesReturn = ow,
      !.returnNotes = rn, !.invoicedWith = iv] :
     st \in {<<>>, S_FULFILLED, S_UNFULFILLED},
     ff \in {<<>>, <<Fulfillment(NowMs - FourteenDaysMs)>>},
     wk \in {NullMf, Mf(In_blank), Mf(In_weeks)},
     as \in {NullMf, Mf(In_arranged_padded), Mf(S_NEED_TO_ARRANGE)},
     aw \in {NullMf, Mf(In_supplier)},
     inc \in {NullMf, Mf(In_Incoming_mixed), Mf(S_NOT_YET)},
     ri \in {Mf(<<>>), Mf(S_RESERVED)},
     rc \in {NullMf, Mf(S_READY_TO_CONTACT), Mf(S_CONTACT_LATER)},
     nf \in {Mf(In_blank), Mf(S_NEEDS_FOLLOW_UP)},
     fn \in {Mf(In_blank), Mf(In_notes)},
     ow \in {NullMf, Mf(In_owes_lower)},
     rn \in {NullMf, Mf(In_return)},
     iv \in {NullMf, Mf(In_invoice)}}

NoResult ==
  [headerText |-> <<>>, blurbLines |-> <<>>, details |-> <<>>, footer |-> <<>>,
   keys |-> <<>>, requests |-> <<>>]

(***************************************************************************)
(* Idle values of the parts a specification does not exercise              *)
(***************************************************************************)
NoEvent ==
  [subtype |-> FALSE, hasText |-> FALSE, text |-> <<>>, tokens |-> <<>>,
   bot_id |-> FALSE, channel |-> "C_ORDERS", ts |-> "ts0"]
NoCall ==
  [kind |-> "none", channel |-> "", thread_ts |-> "", orderName |-> <<>>,
   blocks |-> <<>>]

HandlerIdle ==
  /\ lockChannel = "null" /\ event = NoEvent /\ pc = "off" /\ matches = <<>>
  /\ idx = 0 /\ fetches = <<>> /\ pending = NoCall /\ attempts = <<>>
  /\ posts = <<>> /\ outcomes = <<>> /\ caught = <<>> /\ escaped = FALSE
AnalyzeIdle == aOrder = BareOrder /\ aResult = NoResult /\ aDone = TRUE
FormatIdle ==
  /\ fDetails = <<>> /\ fPos = 0 /\ fCurrent = <<>> /\ fChunks = <<>>
  /\ fBlocks = <<>> /\ fDone = TRUE
NoWeeks == [at |-> NoDate, isNumber |-> FALSE, tenths |-> 0]
WeeksIdle == wOrder = BareOrder /\ wResult = NoWeeks /\ wDone = TRUE

(***************************************************************************)
(* analyzeOrder applied to every order of AnalyzeInputs                    *)
(***************************************************************************)
InitAnalyze ==
  /\ now = NowMs
  /\ aOrder \in AnalyzeInputs
  /\ aResult = NoResult
  /\ aDone = FALSE
  /\ HandlerIdle /\ FormatIdle /\ WeeksIdle

Analyze ==
  /\ ~aDone
  /\ aResult' = AnalyzeOrder(aOrder, now)
  /\ aDone' = TRUE
  /\ UNCHANGED <<now, aOrder, handlerVars, formatVars, weeksVars>>

NextAnalyze == Analyze

SpecAnalyze == InitAnalyze /\ [][NextAnalyze]_vars

(***************************************************************************)
(* Properties of analyzeOrder                                              *)
(***************************************************************************)
Labels(r) == {r.details[i].label : i \in 1..Len(r.details)}
Kinds(r) == {r.blurbLines[i].kind : i \in 1..Len(r.blurbLines)}
CountLabel(r, label) ==
  Cardinality({i \in 1..Len(r.details) : r.details[i].label = label})

\* missing, empty, or whitespace only
IsBlankMf(m) == ~m.present \/ \A i \in 1..Len(m.value) : m.value[i] \in WhiteSpace

\* The requests that carry a value, each key kept at its first request only.
RECURSIVE FirstWriters(_, _)
FirstWriters(reqs, seen) ==
  IF reqs = <<>> THEN <<>>
  ELSE LET q == Head(reqs)
       IN  IF q.value = <<>> \/ q.key \in seen
             THEN FirstWriters(Tail(reqs), seen)
             ELSE <<q>> \o FirstWriters(Tail(reqs), seen \cup {q.key})

\* C1: the detail list analyzeOrder returns holds no two entries with the same
\* key and no two with the same label; the entry kept for a key is the one of
\* the first rule, in rule order, that requested it with a value (so 'Arranged
\* With' of the ARRANGED rule wins over 'Arranged/Reserved With').
C1_DetailsUniqueFirstWriterWins ==
  aDone =>
    LET r == aResult
        fw == FirstWriters(r.requests, {})
    IN  /\ Len(r.keys) = Len(r.details)
        /\ \A i, j \in 1..Len(r.details) :
             i # j => /\ r.keys[i] # r.keys[j]
                      /\ r.details[i].label # r.details[j].label
        /\ Len(fw) = Len(r.details)
        /\ \A i \in 1..Len(fw) :
             /\ r.keys[i] = fw[i].key
             /\ r.details[i] = [label |-> fw[i].label, value |-> fw[i].value]
        /\ ({"ARRANGED_NOT_INCOMING", "RESERVED_INCOMING"} \subseteq Kinds(r)
              /\ ~IsBlankMf(aOrder.arrangedWith))
             => /\ "Arranged With" \in Labels(r)
                /\ "Arranged/Reserved With" \notin Labels(r)

\* Both the ARRANGED rule and the reservation rule asked for arrangedWith, with a
\* value, and one entry was kept.
C1_Witness ==
  /\ aDone
  /\ \E i, j \in 1..Len(aResult.requests) :
       /\ i < j
       /\ aResult.requests[i].key = "arrangedWith"
       /\ aResult.requests[j].key = "arrangedWith"
       /\ aResult.requests[i].label = "Arranged With"
       /\ aResult.requests[j].label = "Arranged/Reserved With"
       /\ aResult.requests[i].value # <<>>
  /\ CountLabel(aResult, "Arranged With") = 1

\* C2: an attribute that is missing or blank gives no detail entry, and no rule
\* keyed on it fires as its positive case.
C2_BlankAttributeSuppressed ==
  aDone =>
    LET r == aResult
        o == aOrder
    IN  /\ \A i \in 1..Len(r.details) :
             \E k \in 1..Len(r.details[i].value) :
               r.details[i].value[k] \notin WhiteSpace
        /\ IsBlankMf(o.weeksSinceOrder) =>
             /\ "Weeks Since Order" \notin Labels(r)
             /\ "NOT_FULFILLED_WEEKS_OPEN" \notin Kinds(r)
        /\ IsBlankMf(o.arrangeStatus) =>
             Kinds(r) \cap {"NEED_TO_ARRANGE", "ARRANGED_NOT_INCOMING",
                            "PARTIALLY_INCOMING"} = {}
        /\ IsBlankMf(o.arrangedWith) =>
             Labels(r) \cap {"Arranged With", "Arranged/Reserved With"} = {}
        /\ IsBlankMf(o.incoming) =>
             Kinds(r) \cap {"INCOMING", "PARTIALLY_INCOMING"} = {}
        /\ IsBlankMf(o.reserveIncoming) => "RESERVED_INCOMING" \notin Kinds(r)
        /\ IsBlankMf(o.readyToContact) =>
             Kinds(r) \cap {"READY_TO_CONTACT", "CONTACT_LATER"} = {}
        /\ IsBlankMf(o.needsFollowUp) => "NEEDS_FOLLOW_UP" \notin Kinds(r)
        /\ IsBlankMf(o.followUpNotes) => "Follow-Up Notes" \notin Labels(r)
        /\ IsBlankMf(o.owesReturn) => "OWES_RETURN" \notin Kinds(r)
        /\ IsBlankMf(o.returnNotes) => "Return Notes" \notin Labels(r)
        /\ IsBlankMf(o.invoicedWith) => "Invoiced With" \notin Labels(r)

\* NEED TO ARRANGE fired for an unfulfilled order and asked for the follow-up
\* notes and the weeks, both whitespace only; the reservation flag is the empty
\* string and the ready-to-contact attribute is missing.
C2_Witness ==
  /\ aDone
  /\ "NEED_TO_ARRANGE" \in Kinds(aResult)
  /\ aOrder.followUpNotes = Mf(In_blank)
  /\ aOrder.weeksSinceOrder = Mf(In_blank)
  /\ aOrder.reserveIncoming = Mf(<<>>)
  /\ aOrder.readyToContact = NullMf
  /\ \E q \in Range(aResult.requests) : q.key = "followUpNotes"
  /\ \E q \in Range(aResult.requests) : q.key = "weeks"
  /\ aResult.details = <<>>

AllCustomFieldsBlank(o) ==
  /\ IsBlankMf(o.weeksSinceOrder) /\ IsBlankMf(o.arrangeStatus)
  /\ IsBlankMf(o.arrangedWith) /\ IsBlankMf(o.incoming)
  /\ IsBlankMf(o.reserveIncoming) /\ IsBlankMf(o.readyToContact)
  /\ IsBlankMf(o.needsFollowUp) /\ IsBlankMf(o.followUpNotes)
  /\ IsBlankMf(o.owesReturn) /\ IsBlankMf(o.returnNotes)
  /\ IsBlankMf(o.invoicedWith)

\* C6: the narrative has at least one line, its first line is the fulfillment
\* line, the 'No exceptions detected' line is never emitted, and an order with
\* no custom field set and a status other than FULFILLED gets exactly the one
\* 'not yet fulfilled, age unknown' line.
C6_NarrativeStartsWithFulfillmentLine ==
  aDone =>
    LET r == aResult
    IN  /\ Len(r.blurbLines) >= 1
        /\ r.blurbLines[1].kind \in
             {"FULFILLED_WEEKS_AGO", "FULFILLED_DATE_UNAVAILABLE",
              "NOT_FULFILLED_WEEKS_OPEN", "NOT_FULFILLED_AGE_UNKNOWN"}
        /\ "NO_EXCEPTIONS" \notin Kinds(r)
        /\ (AllCustomFieldsBlank(aOrder)
              /\ aOrder.displayFulfillmentStatus # S_FULFILLED)
             => r.blurbLines = <<Line("NOT_FULFILLED_AGE_UNKNOWN")>>

\* An order with no custom field set and no fulfillment status was analysed.
C6_Witness ==
  /\ aDone
  /\ AllCustomFieldsBlank(aOrder)
  /\ aOrder.displayFulfillmentStatus = <<>>
  /\ Len(aResult.blurbLines) = 1

ArrangedAndIncomingOnly(o) ==
  /\ o.arrangeStatus = Mf(In_arranged_padded)
  /\ o.incoming = Mf(In_Incoming_mixed)
  /\ IsBlankMf(o.weeksSinceOrder) /\ IsBlankMf(o.arrangedWith)
  /\ IsBlankMf(o.reserveIncoming) /\ IsBlankMf(o.readyToContact)
  /\ IsBlankMf(o.needsFollowUp) /\ IsBlankMf(o.owesReturn)
  /\ IsBlankMf(o.returnNotes) /\ IsBlankMf(o.invoicedWith)

\* C7: with arrange-status ARRANGED and incoming INCOMING, other fields blank,
\* the narrative has the 'partially incoming' line, the follow-up notes give
\* exactly one detail entry when they are not blank and none when they are, and
\* neither the 'arranged (not yet incoming)' nor the plain 'incoming' line appears.
C7_ArrangedAndIncoming ==
  (aDone /\ ArrangedAndIncomingOnly(aOrder)) =>
    LET r == aResult
    IN  /\ "PARTIALLY_INCOMING" \in Kinds(r)
        /\ Cardinality({i \in 1..Len(r.blurbLines) :
                          r.blurbLines[i].kind = "PARTIALLY_INCOMING"}) = 1
        /\ CountLabel(r, "Follow-Up Notes") =
             IF IsBlankMf(aOrder.followUpNotes) THEN 0 ELSE 1
        /\ "ARRANGED_NOT_INCOMING" \notin Kinds(r)
        /\ "INCOMING" \notin Kinds(r)

\* Such an order, with follow-up notes, was analysed.
C7_Witness ==
  /\ aDone
  /\ ArrangedAndIncomingOnly(aOrder)
  /\ aOrder.followUpNotes = Mf(In_notes)
  /\ aResult.details = <<[label |-> "Follow-Up Notes", value |-> In_notes]>>

(***************************************************************************)
(* weeksSince(mostRecentFulfillmentAt(order)) for fulfilled orders         *)
(***************************************************************************)
MaxFulfillments == 2
MaxQuarterSteps == 6

\* A quarter of a tenth of a week: elapsed times that are multiples of it fall
\* on, and between, the ties of the rounding to one decimal.
QuarterTenthMs == WeekMs \div 40

\* Fulfillment instants: before and after the evaluation instant, none, and
\* exactly 14 days before it.
WeeksDates ==
  {NoDate, NowMs - FourteenDaysMs}
    \cup {NowMs - k * QuarterTenthMs : k \in (-MaxQuarterSteps)..MaxQuarterSteps}

SeqsUpTo(S, n) == UNION {[1..k -> S] : k \in 0..n}

InitWeeks ==
  /\ now = NowMs
  /\ \E ds \in SeqsUpTo(WeeksDates, MaxFulfillments) :
       wOrder = [BareOrder EXCEPT
                   !.displayFulfillmentStatus = S_FULFILLED,
                   !.fulfillments = [i \in 1..Len(ds) |-> Fulfillment(ds[i])]]
  /\ wResult = NoWeeks
  /\ wDone = FALSE
  /\ HandlerIdle /\ AnalyzeIdle /\ FormatIdle

\* const fulfilledAt = mostRecentFulfillmentAt(order); const w = weeksSince(fulfilledAt)
ComputeWeeks ==
  /\ ~wDone
  /\ LET fulfilledAt == MostRecentFulfillmentAt(wOrder)
         w == WeeksSince(fulfilledAt, now)
     IN  wResult' = [at |-> fulfilledAt, isNumber |-> w.isNumber,
                     tenths |-> w.tenths]
  /\ wDone' = TRUE
  /\ UNCHANGED <<now, wOrder, handlerVars, analyzeVars, formatVars>>

NextWeeks == ComputeWeeks

SpecWeeks == InitWeeks /\ [][NextWeeks]_vars

PresentDates(o) ==
  {o.fulfillments[i].createdAt : i \in 1..Len(o.fulfillments)} \ {NoDate}

TenthMs == WeekMs \div 10
HalfTenthMs == WeekMs \div 20

\* r tenths is ms / TenthMs rounded to the nearest integer, a tie going away
\* from zero
IsRoundHalfAwayFromZero(r, ms) ==
  IF ms >= 0
    THEN TenthMs * r - HalfTenthMs <= ms /\ ms < TenthMs * r + HalfTenthMs
    ELSE TenthMs * r - HalfTenthMs < ms /\ ms <= TenthMs * r + HalfTenthMs

\* r tenths is ms / TenthMs rounded to the nearest integer, a tie going up
\* (toward positive infinity)
IsRoundHalfUp(r, ms) ==
  TenthMs * r - HalfTenthMs <= ms /\ ms < TenthMs * r + HalfTenthMs

UsesMostRecent ==
  /\ PresentDates(wOrder) = {} => (wResult.at = NoDate /\ ~wResult.isNumber)
  /\ PresentDates(wOrder) # {} =>
       /\ wResult.at \in PresentDates(wOrder)
       /\ \A d \in PresentDates(wOrder) : d <= wResult.at
       /\ wResult.isNumber

\* C9 as stated: the reported weeks are the elapsed milliseconds over
\* 7*24*3600*1000 rounded to one decimal half away from zero, for every elapsed
\* value, negative ones included; 14 days give 2.0; the timestamp used is the
\* maximum of those present.
C9_Original ==
  wDone =>
    /\ UsesMostRecent
    /\ wResult.isNumber => IsRoundHalfAwayFromZero(wResult.tenths, now - wResult.at)
    /\ wResult.at = now - FourteenDaysMs => wResult.tenths = 20

\* C9 amended: the rounding sends a tie toward positive infinity (Math.round),
\* which is half away from zero for elapsed values >= 0 only.
C9_WeeksRoundedHalfUp ==
  wDone =>
    /\ UsesMostRecent
    /\ wResult.isNumber =>
         /\ IsRoundHalfUp(wResult.tenths, now - wResult.at)
         /\ now - wResult.at >= 0 =>
              IsRoundHalfAwayFromZero(wResult.tenths, now - wResult.at)
    /\ wResult.at = now - FourteenDaysMs => wResult.tenths = 20

\* Two fulfillments, the later one dated after the evaluation instant by half a
\* tenth of a week (a tie of the rounding, elapsed time negative): 0 is reported.
C9_Witness ==
  /\ wDone
  /\ Len(wOrder.fulfillments) = 2
  /\ wOrder.fulfillments[1].createdAt = now - FourteenDaysMs
  /\ wOrder.fulfillments[2].createdAt = now + HalfTenthMs
  /\ wResult.at = now + HalfTenthMs
  /\ wResult.tenths = 0

(***************************************************************************)
(* The field chunking, one loop iteration per step                         *)
(***************************************************************************)
MaxDetails == 23

DigitChars == <<"0","1","2","3","4","5","6","7","8","9">>
Numeral(i) == <<DigitChars[((i \div 10) % 10) + 1], DigitChars[(i % 10) + 1]>>

\* n detail entries, told apart by their values
DetailList(n) == [i \in 1..n |-> [label |-> "Detail", value |-> Numeral(i)]]

FormatResult(details) ==
  [headerText |-> Id_1001 \o <<" ", "-", " ">> \o In_customer,
   blurbLines |-> <<Line("NOT_FULFILLED_AGE_UNKNOWN")>>,
   details    |-> details,
   footer     |-> <<AdminOrderUrlFromGid(In_gid)>>,
   keys       |-> <<>>,
   requests   |-> <<>>]

InitFormat ==
  /\ now = NowMs
  /\ fDetails \in {DetailList(n) : n \in 0..MaxDetails}
  /\ fPos = 0 /\ fCurrent = <<>> /\ fChunks = <<>> /\ fBlocks = <<>>
  /\ fDone = FALSE
  /\ HandlerIdle /\ AnalyzeIdle /\ WeeksIdle

\* one iteration of: for (const d of details)
FormatLoop ==
  /\ ~fDone
  /\ fPos < Len(fDetails)
  /\ LET acc == ChunkStep([current |-> fCurrent, fieldChunks |-> fChunks],
                          fDetails[fPos + 1])
     IN  fCurrent' = acc.current /\ fChunks' = acc.fieldChunks
  /\ fPos' = fPos + 1
  /\ UNCHANGED <<now, fDetails, fBlocks, fDone, handlerVars, analyzeVars, weeksVars>>

\* after the loop: the last push, and the blocks
FormatEmit ==
  /\ ~fDone
  /\ fPos = Len(fDetails)
  /\ LET chunks == ChunkFlush([current |-> fCurrent, fieldChunks |-> fChunks])
     IN  /\ fChunks' = (IF Len(fDetails) > 0 THEN chunks ELSE fChunks)
         /\ fBlocks' = AssembleBlocks(FormatResult(fDetails), chunks)
  /\ fDone' = TRUE
  /\ UNCHANGED <<now, fDetails, fPos, fCurrent, handlerVars, analyzeVars, weeksVars>>

NextFormat == FormatLoop \/ FormatEmit

SpecFormat == InitFormat /\ [][NextFormat]_vars

RECURSIVE Flatten(_)
Flatten(ss) == IF ss = <<>> THEN <<>> ELSE Head(ss) \o Flatten(Tail(ss))

Types(blocks) == [i \in 1..Len(blocks) |-> blocks[i].type]

\* C8: n >= 1 detail entries give exactly ceil(n/10) detail section blocks, each
\* of at most 10 entries, all but the last of exactly 10, none empty, which put
\* end to end are the detail list in its order; n = 0 gives no detail block and
\* no second divider.
C8_DetailsChunkedByTen ==
  fDone =>
    LET n == Len(fDetails)
        k == (n + 9) \div 10
        lead == <<"header", "divider", "section">>
    IN  /\ n = 0 => Types(fBlocks) = lead \o <<"context">>
        /\ n >= 1 =>
             /\ Types(fBlocks) =
                  lead \o <<"divider">> \o [i \in 1..k |-> "section"] \o <<"context">>
             /\ \A i \in 1..k :
                  LET len == Len(fBlocks[4 + i].fields)
                  IN  /\ len >= 1 /\ len <= 10
                      /\ i < k => len = 10
             /\ Flatten([i \in 1..k |-> fBlocks[4 + i].fields])
                  = [i \in 1..n |-> [type |-> "mrkdwn", label |-> fDetails[i].label,
                                     value |-> fDetails[i].value]]
        /\ fBlocks[3].fields = <<>>

\* 23 entries were formatted into blocks of 10, 10 and 3.
C8_Witness ==
  /\ fDone
  /\ Len(fDetails) = 23
  /\ Len(fBlocks) = 8
  /\ Len(fBlocks[5].fields) = 10
  /\ Len(fBlocks[6].fields) = 10
  /\ Len(fBlocks[7].fields) = 3

(***************************************************************************)
(* The message handler                                                     *)
(***************************************************************************)
\* \b between text[i] and text[i + 1] (i = 0: the start, i = Len(text): the end)
BoundaryAt(text, i) ==
  LET before == i >= 1 /\ IsWordChar(text[i])
      after == i < Len(text) /\ IsWordChar(text[i + 1])
  IN  before # after

\* how many digits stand at text[i], text[i + 1], ...
RECURSIVE DigitRun(_, _)
DigitRun(text, i) ==
  IF i <= Len(text) /\ IsDigit(text[i]) THEN 1 + DigitRun(text, i + 1) ELSE 0

\* the length of the match of \bC#\d{4,5}\b that starts at text[i], 0 if none:
\* \d{4,5} takes 5 digits when it can and gives one back if \b fails after them
MatchLenAt(text, i) ==
  IF /\ text[i] = "C"
     /\ BoundaryAt(text, i - 1)
     /\ i + 1 <= Len(text)
     /\ text[i + 1] = "#"
    THEN LET d == DigitRun(text, i + 2)
         IN  IF d >= 5 /\ BoundaryAt(text, i + 6) THEN 7
             ELSE IF d >= 4 /\ BoundaryAt(text, i + 5) THEN 6
             ELSE 0
    ELSE 0

RECURSIVE ScanFrom(_, _)
ScanFrom(text, i) ==
  IF i > Len(text) THEN <<>>
  ELSE LET m == MatchLenAt(text, i)
       IN  IF m > 0
             THEN <<SubSeq(text, i, i + m - 1)>> \o ScanFrom(text, i + m)
             ELSE ScanFrom(text, i + 1)

\* the pattern without its g flag: the first match only
MatchFirstOnly(text) ==
  LET all == ScanFrom(text, 1)
  IN  IF all = <<>> THEN <<>> ELSE <<all[1]>>

\* [...event.text.matchAll(ORDER_REGEX)].map(m => m[0])
MatchAll(text) == ScanFrom(text, 1)

\* process.env.ORDER_CHANNEL_ID || null ("" is the variable unset or empty)
LockChannelOf(env) == IF env # "" THEN env ELSE "null"

\* the guards without the bot_id test
IgnoredButForBots(ev, lock) ==
  \/ ev.subtype \/ ~ev.hasText \/ ev.text = <<>>
  \/ (lock # "null" /\ ev.channel # lock)

\* if (event.subtype || !event.text || event.bot_id) return;
\* if (LOCK_CHANNEL && event.channel !== LOCK_CHANNEL) return;
Ignored(ev, lock) ==
  \/ ev.subtype \/ ~ev.hasText \/ ev.text = <<>> \/ ev.bot_id
  \/ (lock # "null" /\ ev.channel # lock)

\* What the backend can answer to the query for orderName.
Response ==
  [rejected |-> FALSE, ok |-> TRUE, errors |-> 0, dataErrors |-> 0, edges |-> <<>>]

FulfilledOrder(orderName) ==
  [BareOrder EXCEPT !.name = orderName,
                    !.displayFulfillmentStatus = S_FULFILLED,
                    !.fulfillments = <<Fulfillment(NowMs - FourteenDaysMs)>>,
                    !.invoicedWith = Mf(In_invoice)]

PartiallyIncomingOrder(orderName) ==
  [BareOrder EXCEPT !.name = orderName,
                    !.weeksSinceOrder = Mf(In_weeks),
                    !.arrangeStatus = Mf(S_ARRANGED),
                    !.incoming = Mf(S_INCOMING),
                    !.followUpNotes = Mf(In_notes)]

BackendResponses(orderName) ==
  {[Response EXCEPT !.rejected = TRUE],
   [Response EXCEPT !.ok = FALSE],
   [Response EXCEPT !.errors = 1],
   [Response EXCEPT !.dataErrors = 1],
   Response,
   [Response EXCEPT !.edges = <<FulfilledOrder(orderName)>>],
   [Response EXCEPT !.edges = <<PartiallyIncomingOrder(orderName)>>]}

\* getOrderByName, given what fetch settles with
GetOrderByName(resp) ==
  IF resp.rejected THEN [raised |-> TRUE, found |-> FALSE, order |-> BareOrder]
  ELSE IF ~resp.ok THEN [raised |-> TRUE, found |-> FALSE, order |-> BareOrder]
  ELSE IF resp.errors > 0 THEN [raised |-> TRUE, found |-> FALSE, order |-> BareOrder]
  ELSE IF resp.dataErrors > 0
    THEN [raised |-> TRUE, found |-> FALSE, order |-> BareOrder]
  ELSE IF Len(resp.edges) = 0
    THEN [raised |-> FALSE, found |-> FALSE, order |-> BareOrder]
  ELSE [raised |-> FALSE, found |-> TRUE, order |-> resp.edges[1]]

Call(kind, ev) ==
  [kind |-> kind, channel |-> ev.channel, thread_ts |-> ev.ts,
   orderName |-> <<>>, blocks |-> <<>>]

\* the reply of one identifier: "Couldn't find an order named ..." when the
\* order is null, the summary with its blocks otherwise
ReplyFor(ev, orderName, res, nowMs) ==
  IF ~res.found
    THEN [Call("notFound", ev) EXCEPT !.orderName = orderName]
    ELSE [Call("summary", ev) EXCEPT
            !.orderName = res.order.name,
            !.blocks = BuildBlocks(AnalyzeOrder(res.order, nowMs))]

\* catch (err): "Sorry, I hit an error looking that up."
ApologyCall(ev) == Call("apology", ev)

\* the for loop moving to the identifier after the i-th: its fetch is issued,
\* or the handler returns
LoopNext(i, ms) ==
  IF i < Len(ms)
    THEN [pc |-> "awaitFetch", idx |-> i + 1, fetch |-> <<ms[i + 1]>>]
    ELSE [pc |-> "done", idx |-> i, fetch |-> <<>>]

\* a catch placed inside the loop: the loop goes on after the apology
AfterCatchContinue(i, ms) == LoopNext(i, ms)

\* the end of the catch block, which is the end of the handler
AfterCatch(i, ms) == [pc |-> "done", idx |-> i, fetch |-> <<>>]

\* the apology posted without a try around it
ApologyFailureUncaught == TRUE

\* try { await client.chat.postMessage(...) } catch {}: whether a failure of
\* the apology leaves the handler
ApologyFailureEscapes == FALSE

MaxTokens == 3

Tok_glued == <<"x","C","#","1","0","0","1">>
Tok_long == <<"C","#","1","2","3","4","5","6">>
Tok_short == <<"C","#","1","2","3">>

\* The words of a message: two identifiers, and three words that are none
\* (glued to a letter, 6 digits, 3 digits).
Tokens == {Id_1001, Id_20022, Tok_glued, Tok_long, Tok_short}

RECURSIVE Join(_)
Join(ws) ==
  IF ws = <<>> THEN <<>>
  ELSE IF Len(ws) = 1 THEN ws[1]
  ELSE ws[1] \o <<" ">> \o Join(Tail(ws))

\* The message events: tokens is the list of words text was written from.
Events ==
  {[subtype |-> st, hasText |-> TRUE, text |-> Join(ws), tokens |-> ws,
    bot_id |-> bot, channel |-> ch, ts |-> "ts1"] :
     st \in BOOLEAN, bot \in BOOLEAN, ch \in {"C_ORDERS", "C_OTHER"},
     ws \in SeqsUpTo(Tokens, MaxTokens)}
  \cup
  {[subtype |-> st, hasText |-> FALSE, text |-> <<>>, tokens |-> <<>>,
    bot_id |-> bot, channel |-> ch, ts |-> "ts1"] :
     st \in BOOLEAN, bot \in BOOLEAN, ch \in {"C_ORDERS", "C_OTHER"}}

Init ==
  /\ now = NowMs
  /\ lockChannel \in {LockChannelOf(env) : env \in {"", "C_ORDERS"}}
  /\ event \in Events
  /\ pc = "ready"
  /\ matches = <<>> /\ idx = 0 /\ fetches = <<>> /\ pending = NoCall
  /\ attempts = <<>> /\ posts = <<>> /\ outcomes = <<>> /\ caught = <<>>
  /\ escaped = FALSE
  /\ AnalyzeIdle /\ FormatIdle /\ WeeksIdle

otherVars == <<now, analyzeVars, formatVars, weeksVars>>

\* the handler up to its first await: the guards, the matches, the first fetch
Start ==
  /\ pc = "ready"
  /\ IF Ignored(event, lockChannel)
       THEN pc' = "done" /\ UNCHANGED <<matches, idx, fetches>>
       ELSE LET ms == MatchAll(event.text)
                n == LoopNext(0, ms)
            IN  /\ matches' = ms
                /\ pc' = n.pc
                /\ idx' = n.idx
                /\ fetches' = fetches \o n.fetch
  /\ UNCHANGED <<lockChannel, event, pending, attempts, posts, outcomes, caught,
                 escaped, otherVars>>

\* entering catch (err): the apology is sent
EnterCatch(step) ==
  /\ caught' = Append(caught, [idx |-> idx, step |-> step])
  /\ pending' = ApologyCall(event)
  /\ attempts' = Append(attempts, ApologyCall(event))
  /\ pc' = "awaitApology"

\* await getOrderByName(orderName) settles; the reply is sent
FetchSettles ==
  /\ pc = "awaitFetch"
  /\ \E resp \in BackendResponses(matches[idx]) :
       LET res == GetOrderByName(resp)
           call == ReplyFor(event, matches[idx], res, now)
       IN  IF res.raised
             THEN /\ outcomes' = Append(outcomes, "raised")
                  /\ EnterCatch("fetch")
             ELSE /\ outcomes' = Append(outcomes,
                                        IF res.found THEN "found" ELSE "absent")
                  /\ pending' = call
                  /\ attempts' = Append(attempts, call)
                  /\ pc' = "awaitPost"
                  /\ caught' = caught
  /\ UNCHANGED <<lockChannel, event, matches, idx, fetches, posts, escaped,
                 otherVars>>

\* await client.chat.postMessage(...) of a reply resolves; the loop goes on
PostResolves ==
  /\ pc = "awaitPost"
  /\ posts' = Append(posts, pending)
  /\ LET n == LoopNext(idx, matches)
     IN  pc' = n.pc /\ idx' = n.idx /\ fetches' = fetches \o n.fetch
  /\ pending' = NoCall
  /\ UNCHANGED <<lockChannel, event, matches, attempts, outcomes, caught,
                 escaped, otherVars>>

\* await client.chat.postMessage(...) of a reply rejects
PostRejects ==
  /\ pc = "awaitPost"
  /\ EnterCatch("post")
  /\ UNCHANGED <<lockChannel, event, matches, idx, fetches, posts, outcomes,
                 escaped, otherVars>>

\* the apology is posted
ApologyResolves ==
  /\ pc = "awaitApology"
  /\ posts' = Append(posts, pending)
  /\ LET n == AfterCatch(idx, matches)
     IN  pc' = n.pc /\ idx' = n.idx /\ fetches' = fetches \o n.fetch
  /\ pending' = NoCall
  /\ UNCHANGED <<lockChannel, event, matches, attempts, outcomes, caught,
                 escaped, otherVars>>

\* the apology's post rejects: catch {}
ApologyRejects ==
  /\ pc = "awaitApology"
  /\ escaped' = ApologyFailureEscapes
  /\ LET n == AfterCatch(idx, matches)
     IN  pc' = n.pc /\ idx' = n.idx /\ fetches' = fetches \o n.fetch
  /\ pending' = NoCall
  /\ UNCHANGED <<lockChannel, event, matches, attempts, posts, outcomes, caught,
                 otherVars>>

Next ==
  \/ Start
  \/ FetchSettles
  \/ PostResolves
  \/ PostRejects
  \/ ApologyResolves
  \/ ApologyRejects

Spec == Init /\ [][Next]_vars

(***************************************************************************)
(* Properties of the message handler                                       *)
(***************************************************************************)
\* The identifiers a message holds, left to right, from the words it was
\* written from.
Ids(ev) == SelectSeq(ev.tokens, LAMBDA t : t \in {Id_1001, Id_20022})

Replies(calls) == SelectSeq(calls, LAMBDA c : c.kind # "apology")
Apologies(calls) == SelectSeq(calls, LAMBDA c : c.kind = "apology")

\* a message the handler has to ignore
Ignorable(ev, lock) ==
  \/ ev.subtype
  \/ ~ev.hasText \/ Len(ev.text) = 0
  \/ ev.bot_id
  \/ (lock # "null" /\ ev.channel # lock)

InThread(c) == c.channel = event.channel /\ c.thread_ts = event.ts

\* c is the reply of identifier id, whose fetch gave outcome
IsOwnReply(c, id, outcome) ==
  /\ InThread(c)
  /\ c.orderName = id
  /\ \/ outcome = "absent" /\ c.kind = "notFound"
     \/ outcome = "found" /\ c.kind = "summary"

\* C3: the identifiers of an accepted message are fetched one at a time, left
\* to right, and when the fetch of one begins every identifier before it has
\* its own threaded reply ('not found' when its fetch returned absent, the
\* summary when it was found); a message with two identifiers, both fetched
\* and answered, ends with two replies in that order.
C3_OneIdentifierAtATime ==
  LET ids == Ids(event)
  IN  /\ Len(fetches) <= Len(ids)
      /\ fetches = SubSeq(ids, 1, Len(fetches))
      /\ \A j \in 1..(Len(fetches) - 1) :
           j <= Len(posts) /\ IsOwnReply(posts[j], ids[j], outcomes[j])
      /\ \A j \in 1..Len(posts) :
           posts[j].kind # "apology" =>
             j <= Len(fetches) /\ IsOwnReply(posts[j], ids[j], outcomes[j])
      /\ (pc = "done" /\ ~Ignorable(event, lockChannel) /\ caught = <<>>) =>
           /\ Len(fetches) = Len(ids)
           /\ Len(posts) = Len(ids)

\* A message with two identifiers was answered 'not found' for the first and
\* with the summary for the second.
C3_Witness ==
  /\ pc = "done"
  /\ Len(Ids(event)) = 2
  /\ outcomes = <<"absent", "found">>
  /\ Len(posts) = 2
  /\ posts[1].kind = "notFound" /\ posts[1].orderName = Ids(event)[1]
  /\ posts[2].kind = "summary" /\ posts[2].orderName = Ids(event)[2]

\* C4: a raise of the fetch or of the reply's post is caught once, exactly one
\* apology is attempted in the thread, no reply of the failed identifier is in
\* the thread, no exception leaves the handler (also when the apology's post
\* fails), and a not-found result alone never enters the catch block.
C4_RaiseCaughtOnce ==
  /\ ~escaped
  /\ Len(caught) <= 1
  /\ Len(Apologies(attempts)) = Len(caught)
  /\ \A j \in 1..Len(attempts) : InThread(attempts[j])
  /\ \A j \in 1..Len(outcomes) :
       outcomes[j] = "raised" => caught = <<[idx |-> j, step |-> "fetch"]>>
  /\ caught # <<>> =>
       LET k == caught[1].idx
       IN  /\ Len(Replies(posts)) = k - 1
           /\ caught[1].step = "fetch" =>
                outcomes[k] = "raised" /\ Len(Replies(attempts)) = k - 1
           /\ caught[1].step = "post" =>
                outcomes[k] \in {"absent", "found"} /\ Len(Replies(attempts)) = k
  /\ \A j \in 1..Len(outcomes) :
       (outcomes[j] = "absent" /\ j <= Len(Replies(posts))) =>
         /\ posts[j].kind = "notFound"
         /\ (caught # <<>> => caught[1].idx > j)

\* The post of the second identifier's reply raised and the apology's post
\* raised too: the handler is done.
C4_Witness ==
  /\ pc = "done"
  /\ caught = <<[idx |-> 2, step |-> "post"]>>
  /\ Len(Apologies(attempts)) = 1
  /\ Len(Apologies(posts)) = 0
  /\ Len(posts) = 1

\* C5: a message with a subtype, with empty or missing text, from a bot, or in
\* a channel other than the configured one gets no reply and no fetch; with no
\* channel configured a message is never ignored for its channel.
C5_IgnoredMessagesUntouched ==
  /\ Ignorable(event, lockChannel) =>
       fetches = <<>> /\ attempts = <<>> /\ posts = <<>>
  /\ ( /\ lockChannel = "null"
       /\ ~event.subtype /\ event.hasText /\ Len(event.text) > 0 /\ ~event.bot_id
       /\ Ids(event) # <<>>
       /\ pc # "ready" ) => fetches # <<>>

\* A bot's message naming an order, in the configured channel, was handled.
C5_Witness ==
  /\ pc = "done"
  /\ event.bot_id /\ ~event.subtype
  /\ Ids(event) # <<>>
  /\ event.channel = lockChannel
  /\ fetches = <<>> /\ attempts = <<>>

\* C10: once the fetch or the reply's post of an identifier raises, no further
\* fetch is issued and no further reply is posted: only one apology may follow.
\* Every identifier is fetched at most once, in order; at most one apology is
\* attempted; the posts never outnumber the matched identifiers.
C10_NothingAfterARaise ==
  /\ Len(fetches) <= Len(matches)
  /\ fetches = SubSeq(matches, 1, Len(fetches))
  /\ Len(Apologies(attempts)) <= 1
  /\ Len(posts) <= Len(matches)
  /\ caught # <<>> =>
       LET k == caught[1].idx
       IN  /\ Len(fetches) = k
           /\ Len(Replies(posts)) = k - 1
           /\ Len(Replies(attempts)) = IF caught[1].step = "fetch" THEN k - 1 ELSE k
           /\ Len(posts) <= k

\* Of three identifiers the first was answered and the fetch of the second
\* raised: two fetches, one reply, one apology, nothing for the third.
C10_Witness ==
  /\ pc = "done"
  /\ Len(matches) = 3
  /\ caught = <<[idx |-> 2, step |-> "fetch"]>>
  /\ fetches = SubSeq(matches, 1, 2)
  /\ Len(posts) = 2
  /\ posts[1].kind = "summary" /\ posts[2].kind = "apology"

====
